---- MODULE Spec2Model ----
(***************************************************************************)
(* Model of task_sorting.py: the priority-weighted topological sort        *)
(* (topological_sort_with_priority), the backward scheduler                *)
(* (schedule_tasks_with_priority) and the driver loop of __main__.         *)
(*                                                                         *)
(* Task objects are identified by their position in raw_tasks; every list  *)
(* of tasks the code builds (tasks_to_do, zero_in_degree, sorted_list,     *)
(* tasks_ordered, scheduled) is a sequence of such references, so that the *)
(* in-place writes of start_time / finish_time are seen through all of     *)
(* them, as in Python.  None is <<>> and a set value v is <<v>>.           *)
(***************************************************************************)
EXTENDS Integers, Sequences, FiniteSets, TLC

\* ------------------------------------------------------------------ bounds
MaxTasks == 3
MaxDeadline == 2
MaxDuration == 1
MaxAlpha == 1
MaxEdges == 2

\* ------------------------------------------------------- program constants
PriorityMin == 1
PriorityMax == 5

TODO == "to-do"
IN_PROGRESS == "in-progress"
PAUSED == "paused"
CANCELLED == "cancelled"
DONE == "done"
DELETED == "deleted"

Statuses == {TODO, IN_PROGRESS, PAUSED, CANCELLED, DONE, DELETED}
valid_statuses == {TODO, IN_PROGRESS, PAUSED}

None == <<>>
Some(v) == <<v>>

VARIABLES
    raw_tasks,       \* the task objects, in input order
    test_alphas,     \* the alphas the driver has still to run
    alpha,           \* alpha of the current call
    pc,              \* position of the program
    tasks_to_do,     \* schedule: the status-filtered list
    in_degree,       \* order: id -> remaining present dependencies
    graph,           \* order: id -> ids of dependents, in insertion order
    zero_in_degree,  \* order: the ready pool
    sorted_list,     \* order: the output built so far
    tasks_ordered,   \* schedule: the list order() returned
    current_time,    \* schedule: the backward cursor
    idx,             \* schedule: position of reversed(tasks_ordered)
    scheduled,       \* driver: the list schedule() returned
    writes,          \* per task object: time-field writes in the current call
    output,          \* driver: what was printed so far, one entry per call
    stripped         \* caller: the dangling ids were deleted between two calls

vars == <<raw_tasks, test_alphas, alpha, pc, tasks_to_do, in_degree, graph,
          zero_in_degree, sorted_list, tasks_ordered, current_time, idx,
          scheduled, writes, output, stripped>>

\* ------------------------------------------------------------ sequence help
Range(s) == {s[i] : i \in DOMAIN s}

Front(s) == SubSeq(s, 1, Len(s) - 1)

Last(s) == s[Len(s)]

SetMin(S) == CHOOSE x \in S : \A y \in S : x <= y

SetMax(S) == CHOOSE x \in S : \A y \in S : x >= y

RECURSIVE SetToSeq(_)
SetToSeq(S) == IF S = {} THEN <<>> ELSE <<SetMin(S)>> \o SetToSeq(S \ {SetMin(S)})

RECURSIVE SumLens(_, _)
SumLens(f, D) ==
    IF D = {} THEN 0
    ELSE LET d == CHOOSE x \in D : TRUE IN Len(f[d]) + SumLens(f, D \ {d})

\* --------------------------------------------------------------------- Task
Task(id, deadline, duration, priority, status, dependencies) ==
    [id |-> id, deadline |-> deadline, duration |-> duration,
     priority |-> priority, status |-> status, dependencies |-> dependencies,
     start_time |-> None, finish_time |-> None]

\* ------------------------------------------- topological_sort_with_priority
\* task_map = {t.id: t for t in tasks}: a later task with the same id wins.
TaskMapIds(ts) == {raw_tasks[ts[i]].id : i \in DOMAIN ts}

task_map(ts) ==
    [d \in TaskMapIds(ts) |->
        ts[SetMax({i \in DOMAIN ts : raw_tasks[ts[i]].id = d})]]

\* variant: the inner loop stops after the first dependency it registers
PresentDeps_first(ts, t) ==
    LET present == SelectSeq(raw_tasks[t].dependencies,
                             LAMBDA d : d \in TaskMapIds(ts))
    IN IF present = <<>> THEN <<>> ELSE <<Head(present)>>

\* the dependency entries of t that name a task of the working set
PresentDeps(ts, t) ==
    SelectSeq(raw_tasks[t].dependencies, LAMBDA d : d \in TaskMapIds(ts))

\* variant: a dependency of a task on itself is not counted
InitInDegree_noself(ts) ==
    [d \in TaskMapIds(ts) |->
        SumLens([i \in DOMAIN ts |->
                    SelectSeq(PresentDeps(ts, ts[i]), LAMBDA e : e # d)],
                {i \in DOMAIN ts : raw_tasks[ts[i]].id = d})]

\* variant: the test "dep_id in task_map" guards the graph but not in_degree
InitInDegree_all(ts) ==
    [d \in TaskMapIds(ts) |->
        SumLens([i \in DOMAIN ts |-> raw_tasks[ts[i]].dependencies],
                {i \in DOMAIN ts : raw_tasks[ts[i]].id = d})]

\* in_degree after the double loop of lines 43-47
InitInDegree(ts) ==
    [d \in TaskMapIds(ts) |->
        SumLens([i \in DOMAIN ts |-> PresentDeps(ts, ts[i])],
                {i \in DOMAIN ts : raw_tasks[ts[i]].id = d})]

\* the ids appended to graph[d] while the outer loop is at task t
EdgesFrom(ts, d, t) == SelectSeq(PresentDeps(ts, t), LAMBDA e : e = d)

RECURSIVE GraphRow(_, _, _)
GraphRow(ts, d, n) ==
    IF n = 0 THEN <<>>
    ELSE GraphRow(ts, d, n - 1) \o
         [k \in 1..Len(EdgesFrom(ts, d, ts[n])) |-> raw_tasks[ts[n]].id]

InitGraph(ts) == [d \in TaskMapIds(ts) |-> GraphRow(ts, d, Len(ts))]

\* variant: alpha is left out of the key
effective_deadline_noalpha(t) == raw_tasks[t].deadline - raw_tasks[t].priority

\* variant: the priority term has the wrong sign
effective_deadline_plus(t) == raw_tasks[t].deadline + alpha * raw_tasks[t].priority

effective_deadline(t) == raw_tasks[t].deadline - alpha * raw_tasks[t].priority

\* variant: the tasks with an empty dependencies list are taken first, the
\* tasks whose dependencies are all absent after them
InitialPool_nodepsfirst(ts) ==
    SelectSeq(ts, LAMBDA t : raw_tasks[t].dependencies = <<>>) \o
    SelectSeq(ts, LAMBDA t : /\ raw_tasks[t].dependencies # <<>>
                             /\ InitInDegree(ts)[raw_tasks[t].id] = 0)

\* line 54: the tasks without a present dependency, in input order
InitialPool(ts) ==
    SelectSeq(ts, LAMBDA t : InitInDegree(ts)[raw_tasks[t].id] = 0)

\* variant: an unstable sort that puts an element before the equal ones
RECURSIVE sort_unstable(_)
sort_unstable(s) ==
    IF s = <<>> THEN <<>>
    ELSE LET rest == sort_unstable(Front(s))
             x == Last(s)
             k == Cardinality({i \in DOMAIN rest :
                      effective_deadline(rest[i]) < effective_deadline(x)})
         IN SubSeq(rest, 1, k) \o <<x>> \o SubSeq(rest, k + 1, Len(rest))

\* list.sort(key=effective_deadline): stable, ascending
RECURSIVE sort(_)
sort(s) ==
    IF s = <<>> THEN <<>>
    ELSE LET rest == sort(Front(s))
             x == Last(s)
             k == Cardinality({i \in DOMAIN rest :
                      effective_deadline(rest[i]) <= effective_deadline(x)})
         IN SubSeq(rest, 1, k) \o <<x>> \o SubSeq(rest, k + 1, Len(rest))

\* variant: a dependent is released one dependency too early
RECURSIVE Release_early(_, _, _)
Release_early(ts, nbrs, st) ==
    IF nbrs = <<>> THEN st
    ELSE LET n == Head(nbrs)
             deg == [st.deg EXCEPT ![n] = @ - 1]
             zero == IF deg[n] = 1 THEN Append(st.zero, task_map(ts)[n])
                     ELSE st.zero
         IN Release_early(ts, Tail(nbrs), [deg |-> deg, zero |-> zero])

\* the for loop of lines 64-67 over the dependents nbrs of the popped task;
\* st = [deg |-> in_degree, zero |-> zero_in_degree]
RECURSIVE Release(_, _, _)
Release(ts, nbrs, st) ==
    IF nbrs = <<>> THEN st
    ELSE LET n == Head(nbrs)
             deg == [st.deg EXCEPT ![n] = @ - 1]
             zero == IF deg[n] = 0 THEN Append(st.zero, task_map(ts)[n])
                     ELSE st.zero
         IN Release(ts, Tail(nbrs), [deg |-> deg, zero |-> zero])

\* ---------------------------------------------- schedule_tasks_with_priority
\* variant: cancelled tasks pass the filter
FilterByStatus_cancelled(ts) ==
    SelectSeq([i \in DOMAIN ts |-> i],
              LAMBDA i : ts[i].status \in valid_statuses \cup {CANCELLED})

FilterByStatus(ts) ==
    SelectSeq([i \in DOMAIN ts |-> i], LAMBDA i : ts[i].status \in valid_statuses)

\* variant: the least deadline instead of the greatest
max_deadline_min(ts) == SetMin({raw_tasks[ts[i]].deadline : i \in DOMAIN ts})

\* lines 98-99: max(t.deadline for t in tasks_ordered)
max_deadline(ts) == SetMax({raw_tasks[ts[i]].deadline : i \in DOMAIN ts})

\* variant: max instead of min
Min_max(a, b) == IF a >= b THEN a ELSE b

Min(a, b) == IF a <= b THEN a ELSE b

\* line 106: finish = min(current_time, t.deadline)
Finish(cur, t) == Min(cur, raw_tasks[t].deadline)

\* variant: the duration is added instead of subtracted
Start_plus(cur, t) == Finish(cur, t) + raw_tasks[t].duration

\* variant: a start time left by an earlier call is reused
Start_stale(cur, t) ==
    IF raw_tasks[t].start_time # None
    THEN raw_tasks[t].start_time[1] - raw_tasks[t].duration
    ELSE Finish(cur, t) - raw_tasks[t].duration

\* variant: start is taken from the cursor instead of from finish
Start_cursor(cur, t) == cur - raw_tasks[t].duration

\* line 107: start = finish - t.duration
Start(cur, t) == Finish(cur, t) - raw_tasks[t].duration

\* variant: the cursor is never moved
NextTime_stay(cur, t) == cur

\* variant: the cursor is moved to finish instead of start
NextTime_finish(cur, t) == Finish(cur, t)

\* line 114: current_time = start
NextTime(cur, t) == Start(cur, t)

\* -------------------------------------------------------------------- inputs
Deadlines == 1..MaxDeadline
Durations == 0..MaxDuration
Priorities == {PriorityMin, PriorityMax}
InputStatuses == {TODO, CANCELLED}
Alphas == 0..MaxAlpha

EdgeCount(dp) == SumLens([i \in DOMAIN dp |-> SetToSeq(dp[i])], DOMAIN dp)

\* the example of __main__
DemoTasks ==
    << Task(1, 50, 10, 3, TODO, <<>>),
       Task(2, 55, 5, 5, IN_PROGRESS, <<>>),
       Task(3, 60, 5, 2, TODO, <<>>),
       Task(4, 60, 10, 4, PAUSED, <<>>),
       Task(5, 100, 5, 1, CANCELLED, <<>>),
       Task(6, 70, 5, 3, TODO, <<4, 1>>) >>

DemoAlphas == <<0, 5>>

Locals ==
    /\ alpha = 0
    /\ pc = "main"
    /\ tasks_to_do = <<>>
    /\ in_degree = <<>>
    /\ graph = <<>>
    /\ zero_in_degree = <<>>
    /\ sorted_list = <<>>
    /\ tasks_ordered = <<>>
    /\ current_time = 0
    /\ idx = 0
    /\ scheduled = <<>>
    /\ output = <<>>
    /\ stripped = FALSE

InitBounded ==
    \E n \in 0..MaxTasks :
      \E dp \in [1..n -> SUBSET (1..n)] :
        /\ EdgeCount(dp) <= MaxEdges
        /\ \E dl \in [1..n -> Deadlines], du \in [1..n -> Durations],
              pr \in [1..n -> Priorities], st \in [1..n -> InputStatuses],
              a \in Alphas :
              /\ raw_tasks = [i \in 1..n |->
                                Task(i, dl[i], du[i], pr[i], st[i], SetToSeq(dp[i]))]
              /\ test_alphas = <<a>>

\* every status of the enumeration, over a small set of dependency graphs
InitStatuses ==
    \E dp \in [1..MaxTasks -> SUBSET (1..MaxTasks)] :
        /\ EdgeCount(dp) <= 1
        /\ \E st \in [1..MaxTasks -> Statuses] :
              /\ raw_tasks = [i \in 1..MaxTasks |->
                                Task(i, MaxDeadline, 1, PriorityMin, st[i],
                                     SetToSeq(dp[i]))]
              /\ test_alphas = <<0>>

\* two calls with the same alpha on the same task objects; dependencies may
\* also name an id (MaxTasks + 1) that no task has
InitRepeat ==
    \E dp \in [1..MaxTasks -> SUBSET (1..(MaxTasks + 1))] :
        /\ EdgeCount(dp) <= MaxEdges
        /\ \E dl \in [1..MaxTasks -> Deadlines],
              st \in [1..MaxTasks -> InputStatuses], a \in Alphas :
              /\ raw_tasks = [i \in 1..MaxTasks |->
                                Task(i, dl[i], 1, PriorityMin, st[i],
                                     SetToSeq(dp[i]))]
              /\ test_alphas = <<a, a>>

InitDemo ==
    /\ raw_tasks = DemoTasks
    /\ test_alphas = DemoAlphas

Init ==
    /\ InitBounded \/ InitStatuses \/ InitRepeat \/ InitDemo
    /\ writes = [i \in DOMAIN raw_tasks |-> 0]
    /\ Locals

\* ------------------------------------------------------------------- actions
\* __main__: for test_alpha in [...]: scheduled = schedule_tasks_with_priority(...)
MainCall ==
    /\ pc = "main"
    /\ test_alphas # <<>>
    /\ alpha' = Head(test_alphas)
    /\ test_alphas' = Tail(test_alphas)
    /\ writes' = [i \in DOMAIN raw_tasks |-> 0]
    /\ pc' = "schedule"
    /\ UNCHANGED <<raw_tasks, tasks_to_do, in_degree, graph, zero_in_degree,
                   sorted_list, tasks_ordered, current_time, idx, scheduled, output, stripped>>

MainExit ==
    /\ pc = "main"
    /\ test_alphas = <<>>
    /\ pc' = "exit"
    /\ UNCHANGED <<raw_tasks, test_alphas, alpha, tasks_to_do, in_degree, graph,
                   zero_in_degree, sorted_list, tasks_ordered, current_time,
                   idx, scheduled, writes, output, stripped>>

\* variant: the early return of lines 90-91 is missing
Filter_noearly ==
    /\ pc = "schedule"
    /\ tasks_to_do' = FilterByStatus(raw_tasks)
    /\ pc' = "order"
    /\ UNCHANGED <<raw_tasks, test_alphas, alpha, in_degree, graph,
                   zero_in_degree, sorted_list, tasks_ordered, current_time,
                   idx, scheduled, writes, output, stripped>>

\* schedule, lines 86-91: the status filter and the early return
Filter ==
    /\ pc = "schedule"
    /\ LET todo == FilterByStatus(raw_tasks) IN
         IF todo = <<>>
         THEN /\ scheduled' = <<>>
              /\ tasks_to_do' = <<>>
              /\ pc' = "print"
         ELSE /\ tasks_to_do' = todo
              /\ pc' = "order"
              /\ UNCHANGED scheduled
    /\ UNCHANGED <<raw_tasks, test_alphas, alpha, in_degree, graph,
                   zero_in_degree, sorted_list, tasks_ordered, current_time,
                   idx, writes, output, stripped>>

\* variant: the input list itself is sorted in place
OrderBuild_sortinput ==
    /\ pc = "order"
    /\ in_degree' = InitInDegree(tasks_to_do)
    /\ graph' = InitGraph(tasks_to_do)
    /\ tasks_to_do' = sort(tasks_to_do)
    /\ zero_in_degree' = sort(InitialPool(tasks_to_do))
    /\ sorted_list' = <<>>
    /\ pc' = "loop"
    /\ UNCHANGED <<raw_tasks, test_alphas, alpha, tasks_ordered,
                   current_time, idx, scheduled, writes, output, stripped>>

\* order, lines 37-57: task_map, in_degree, graph and the first ready pool
OrderBuild ==
    /\ pc = "order"
    /\ in_degree' = InitInDegree(tasks_to_do)
    /\ graph' = InitGraph(tasks_to_do)
    /\ zero_in_degree' = sort(InitialPool(tasks_to_do))
    /\ sorted_list' = <<>>
    /\ pc' = "loop"
    /\ UNCHANGED <<raw_tasks, test_alphas, alpha, tasks_to_do, tasks_ordered,
                   current_time, idx, scheduled, writes, output, stripped>>

\* variant: the head of the pool is read but not removed, and a head that
\* was already emitted is skipped
OrderStep_nopop ==
    /\ pc = "loop"
    /\ zero_in_degree # <<>>
    /\ LET current == Head(zero_in_degree)
           st == Release(tasks_to_do, graph[raw_tasks[current].id],
                         [deg |-> in_degree, zero |-> zero_in_degree])
       IN IF current \in Range(sorted_list)
          THEN UNCHANGED <<sorted_list, in_degree, zero_in_degree>>
          ELSE /\ sorted_list' = Append(sorted_list, current)
               /\ in_degree' = st.deg
               /\ zero_in_degree' = sort(st.zero)
    /\ UNCHANGED <<raw_tasks, test_alphas, alpha, pc, tasks_to_do, graph,
                   tasks_ordered, current_time, idx, scheduled, writes, output, stripped>>

\* order, lines 60-69: one iteration of the while loop
OrderStep ==
    /\ pc = "loop"
    /\ zero_in_degree # <<>>
    /\ LET current == Head(zero_in_degree)
           st == Release(tasks_to_do, graph[raw_tasks[current].id],
                         [deg |-> in_degree, zero |-> Tail(zero_in_degree)])
       IN /\ sorted_list' = Append(sorted_list, current)
          /\ in_degree' = st.deg
          /\ zero_in_degree' = sort(st.zero)
    /\ UNCHANGED <<raw_tasks, test_alphas, alpha, pc, tasks_to_do, graph,
                   tasks_ordered, current_time, idx, scheduled, writes, output, stripped>>

\* order, lines 72-73: the cycle error; it propagates through schedule and
\* the driver, which catch nothing
OrderRaise ==
    /\ pc = "loop"
    /\ zero_in_degree = <<>>
    /\ Len(sorted_list) # Len(tasks_to_do)
    /\ pc' = "raised"
    /\ UNCHANGED <<raw_tasks, test_alphas, alpha, tasks_to_do, in_degree, graph,
                   zero_in_degree, sorted_list, tasks_ordered, current_time,
                   idx, scheduled, writes, output, stripped>>

\* variant: the length check of line 72 is missing
OrderReturn_nocheck ==
    /\ pc = "loop"
    /\ zero_in_degree = <<>>
    /\ tasks_ordered' = sorted_list
    /\ in_degree' = <<>>
    /\ graph' = <<>>
    /\ sorted_list' = <<>>
    /\ pc' = "horizon"
    /\ UNCHANGED <<raw_tasks, test_alphas, alpha, tasks_to_do, zero_in_degree,
                   current_time, idx, scheduled, writes, output, stripped>>

\* order, line 75, and the assignment of line 94
OrderReturn ==
    /\ pc = "loop"
    /\ zero_in_degree = <<>>
    /\ Len(sorted_list) = Len(tasks_to_do)
    /\ tasks_ordered' = sorted_list
    /\ in_degree' = <<>>
    /\ graph' = <<>>
    /\ sorted_list' = <<>>
    /\ pc' = "horizon"
    /\ UNCHANGED <<raw_tasks, test_alphas, alpha, tasks_to_do, zero_in_degree,
                   current_time, idx, scheduled, writes, output, stripped>>

\* schedule, lines 98-99
Horizon ==
    /\ pc = "horizon"
    /\ current_time' = max_deadline(tasks_ordered)
    /\ idx' = Len(tasks_ordered)
    /\ pc' = "backward"
    /\ UNCHANGED <<raw_tasks, test_alphas, alpha, tasks_to_do, in_degree, graph,
                   zero_in_degree, sorted_list, tasks_ordered, scheduled, writes, output, stripped>>

\* schedule, lines 104-114: one iteration over reversed(tasks_ordered)
BackwardStep ==
    /\ pc = "backward"
    /\ idx > 0
    /\ LET t == tasks_ordered[idx]
       IN /\ raw_tasks' =
                [raw_tasks EXCEPT ![t].finish_time = Some(Finish(current_time, t)),
                                  ![t].start_time = Some(Start(current_time, t))]
          /\ writes' = [writes EXCEPT ![t] = @ + 1]
          /\ current_time' = NextTime(current_time, t)
    /\ idx' = idx - 1
    /\ UNCHANGED <<test_alphas, alpha, pc, tasks_to_do, in_degree, graph,
                   zero_in_degree, sorted_list, tasks_ordered, scheduled, output, stripped>>

\* schedule, line 116
ScheduleReturn ==
    /\ pc = "backward"
    /\ idx = 0
    /\ scheduled' = tasks_ordered
    /\ tasks_to_do' = <<>>
    /\ tasks_ordered' = <<>>
    /\ current_time' = 0
    /\ pc' = "print"
    /\ UNCHANGED <<raw_tasks, test_alphas, alpha, in_degree, graph,
                   zero_in_degree, sorted_list, idx, writes, output, stripped>>

\* what print(s) shows of the tasks of a returned list, in order
Rows(ts) ==
    [k \in DOMAIN ts |->
        [id |-> raw_tasks[ts[k]].id,
         start |-> raw_tasks[ts[k]].start_time,
         finish |-> raw_tasks[ts[k]].finish_time]]

\* __main__, lines 135-138: print the header and the returned list
PrintScheduled ==
    /\ pc = "print"
    /\ output' = Append(output, [alpha |-> alpha, rows |-> Rows(scheduled)])
    /\ pc' = "main"
    /\ UNCHANGED <<raw_tasks, test_alphas, alpha, tasks_to_do, in_degree, graph,
                   zero_in_degree, sorted_list, tasks_ordered, current_time,
                   idx, scheduled, writes, stripped>>

Next ==
    \/ MainCall
    \/ MainExit
    \/ Filter
    \/ OrderBuild
    \/ OrderStep
    \/ OrderRaise
    \/ OrderReturn
    \/ Horizon
    \/ BackwardStep
    \/ ScheduleReturn
    \/ PrintScheduled

Spec == Init /\ [][Next]_vars

\* ------------------------------------------- the same input without dangling ids
\* the entries of a dependencies list that name a task passing the status filter
NotDangling(deps) ==
    SelectSeq(deps, LAMBDA d : \E j \in DOMAIN raw_tasks :
                                  /\ raw_tasks[j].id = d
                                  /\ raw_tasks[j].status \in valid_statuses)

\* the caller deletes the dangling ids from every dependencies list between
\* the first call and the second
StripDangling ==
    /\ pc = "main"
    /\ output # <<>>
    /\ test_alphas # <<>>
    /\ ~stripped
    /\ \E i \in DOMAIN raw_tasks :
          NotDangling(raw_tasks[i].dependencies) # raw_tasks[i].dependencies
    /\ raw_tasks' = [i \in DOMAIN raw_tasks |->
                       [raw_tasks[i] EXCEPT !.dependencies = NotDangling(@)]]
    /\ stripped' = TRUE
    /\ UNCHANGED <<test_alphas, alpha, pc, tasks_to_do, in_degree, graph,
                   zero_in_degree, sorted_list, tasks_ordered, current_time,
                   idx, scheduled, writes, output>>

InitStrip ==
    /\ InitRepeat
    /\ writes = [i \in DOMAIN raw_tasks |-> 0]
    /\ Locals

NextStrip == Next \/ StripDangling

SpecStrip == InitStrip /\ [][NextStrip]_vars

\* --------------------------------------------------------- fair execution
\* one call on up to MaxTasks to-do tasks with every dependency graph of up
\* to MaxTasks edges among them, cycles of every length included
InitFair ==
    /\ \E n \in 0..MaxTasks :
         \E dp \in [1..n -> SUBSET (1..n)] :
           /\ EdgeCount(dp) <= MaxTasks
           /\ \E dl \in [1..n -> Deadlines] :
                 raw_tasks = [i \in 1..n |->
                                Task(i, dl[i], 1, PriorityMin, TODO, SetToSeq(dp[i]))]
    /\ test_alphas = <<0>>
    /\ writes = [i \in DOMAIN raw_tasks |-> 0]
    /\ Locals

\* the program is one thread of synchronous code: whenever a next statement
\* exists, it is executed
FairSpec == InitFair /\ [][Next]_vars /\ WF_vars(Next)

\* ------------------------------------------------------------ claim helpers
\* the tasks that pass the status filter
ActiveSet ==
    {i \in DOMAIN raw_tasks : raw_tasks[i].status \in {TODO, IN_PROGRESS, PAUSED}}

\* d is a dependency of t (edge d -> t)
DependsOn(t, d) ==
    \E k \in DOMAIN raw_tasks[t].dependencies :
        raw_tasks[t].dependencies[k] = raw_tasks[d].id

Precedes(s, d, t) == \E i, j \in DOMAIN s : i < j /\ s[i] = d /\ s[j] = t

\* a non-empty set of tasks each of which depends on a task of the set
HasCycle(S) ==
    \E C \in SUBSET S : C # {} /\ \A t \in C : \E d \in C : DependsOn(t, d)

StartOf(t) == raw_tasks[t].start_time[1]

FinishOf(t) == raw_tasks[t].finish_time[1]

TimesSet(t) == raw_tasks[t].start_time # None /\ raw_tasks[t].finish_time # None

TimesUnset(t) == raw_tasks[t].start_time = None /\ raw_tasks[t].finish_time = None

\* schedule has returned and the driver holds its result
ScheduleReturned == pc = "print"

\* order has returned and schedule holds its result
OrderReturned == pc = "horizon"

\* ---------------------------------------------------------------------- C1
\* C1: in the sequence schedule returns, and in the sequence order returns,
\* every dependency that is in the working set stands strictly before its
\* dependent.
TopologicalValidity ==
    /\ ScheduleReturned =>
          \A d, t \in ActiveSet : DependsOn(t, d) => Precedes(scheduled, d, t)
    /\ OrderReturned =>
          \A d, t \in Range(tasks_to_do) :
              DependsOn(t, d) => Precedes(tasks_ordered, d, t)

\* a returned schedule in which a dependent has the smaller effective deadline
TopologicalValidityWitness ==
    /\ ScheduleReturned
    /\ \E d, t \in ActiveSet :
          /\ DependsOn(t, d)
          /\ effective_deadline(t) < effective_deadline(d)
          /\ Precedes(scheduled, d, t)

\* ---------------------------------------------------------------------- C2
\* C2: after schedule returns, the finish time of every returned task is at
\* most its deadline.
DeadlineRespect ==
    ScheduleReturned =>
        \A k \in DOMAIN scheduled :
            /\ raw_tasks[scheduled[k]].finish_time # None
            /\ FinishOf(scheduled[k]) <= raw_tasks[scheduled[k]].deadline

\* a returned schedule with one task capped by its deadline and one by the cursor
DeadlineRespectWitness ==
    /\ ScheduleReturned
    /\ \E k \in DOMAIN scheduled :
          FinishOf(scheduled[k]) < raw_tasks[scheduled[k]].deadline
    /\ \E k \in DOMAIN scheduled :
          /\ k < Len(scheduled)
          /\ FinishOf(scheduled[k]) = raw_tasks[scheduled[k]].deadline
          /\ FinishOf(scheduled[k]) < StartOf(scheduled[k + 1])

\* ---------------------------------------------------------------------- C3
\* C3: order fails with the cycle error exactly when the dependencies among
\* its input tasks contain a cycle; a failed call hands back no sequence; and
\* schedule fails exactly when the status-filtered set contains a cycle.
CycleDetectionExact ==
    /\ (pc = "loop" /\ zero_in_degree = <<>>) =>
          (Len(sorted_list) # Len(tasks_to_do) <=> HasCycle(Range(tasks_to_do)))
    /\ pc = "raised" =>
          /\ HasCycle(Range(tasks_to_do))
          /\ HasCycle(ActiveSet)
          /\ tasks_ordered = <<>>
          /\ scheduled = <<>>
    /\ OrderReturned => ~HasCycle(Range(tasks_to_do))
    /\ ScheduleReturned => ~HasCycle(ActiveSet)

\* the error is raised after part of the input was already put in order, and
\* some task outside the cycle has a dependency that the filter removed
CycleDetectionWitness ==
    /\ pc = "raised"
    /\ sorted_list # <<>>
    /\ \E t \in Range(sorted_list), d \in DOMAIN raw_tasks :
          d \notin ActiveSet /\ DependsOn(t, d)

\* ---------------------------------------------------------------------- C4
\* C4: when the status-filtered set contains a dependency cycle, schedule
\* never gets past ordering, no time field of any task is ever written, and
\* the call ends with the cycle error.
AtomicFailure ==
    HasCycle(ActiveSet) =>
        /\ pc \in {"main", "schedule", "order", "loop", "raised"}
        /\ \A i \in DOMAIN raw_tasks : TimesUnset(i) /\ writes[i] = 0
        /\ (pc = "loop" /\ zero_in_degree = <<>>) =>
              Len(sorted_list) # Len(tasks_to_do)

\* the error raised for two tasks that depend on each other
AtomicFailureWitness ==
    /\ pc = "raised"
    /\ \E a, b \in ActiveSet : a # b /\ DependsOn(a, b) /\ DependsOn(b, a)

\* ---------------------------------------------------------------------- C5
\* C5: after schedule returns, finish_time - start_time = duration for every
\* returned task.
DurationConsistency ==
    ScheduleReturned =>
        \A k \in DOMAIN scheduled :
            /\ TimesSet(scheduled[k])
            /\ FinishOf(scheduled[k]) - StartOf(scheduled[k])
                  = raw_tasks[scheduled[k]].duration

\* a returned schedule with a zero-duration task and a longer task that its
\* own deadline caps below the cursor
DurationConsistencyWitness ==
    /\ ScheduleReturned
    /\ \E k \in DOMAIN scheduled : raw_tasks[scheduled[k]].duration = 0
    /\ \E k \in DOMAIN scheduled :
          /\ k < Len(scheduled)
          /\ raw_tasks[scheduled[k]].duration > 0
          /\ FinishOf(scheduled[k]) < StartOf(scheduled[k + 1])

\* ---------------------------------------------------------------------- C6
\* C6: a task whose status is outside {to-do, in-progress, paused} never has
\* a time field set and is not in the returned sequence; every task with such
\* a status is in the returned sequence with both time fields set.
StatusFiltering ==
    /\ \A i \in DOMAIN raw_tasks :
          raw_tasks[i].status \in {CANCELLED, DONE, DELETED} =>
              TimesUnset(i) /\ writes[i] = 0
    /\ ScheduleReturned =>
          \A i \in DOMAIN raw_tasks :
              IF raw_tasks[i].status \in {TODO, IN_PROGRESS, PAUSED}
              THEN i \in Range(scheduled) /\ TimesSet(i)
              ELSE i \notin Range(scheduled)

\* a returned schedule over an input with a cancelled, a deleted and a paused task
StatusFilteringWitness ==
    /\ ScheduleReturned
    /\ \E i, j, k \in DOMAIN raw_tasks :
          /\ raw_tasks[i].status = CANCELLED
          /\ raw_tasks[j].status = DELETED
          /\ raw_tasks[k].status = PAUSED
          /\ k \in Range(scheduled)

\* a returned schedule over an input with a done task
StatusFilteringDoneWitness ==
    /\ ScheduleReturned
    /\ scheduled # <<>>
    /\ \E i \in DOMAIN raw_tasks : raw_tasks[i].status = DONE

\* ---------------------------------------------------------------------- C7
\* C7: the sequence order returns holds every input task exactly once and
\* nothing else; the sequence schedule returns is a permutation of the
\* status-filtered set, and each of its tasks had its time fields written
\* exactly once in the call.
Permutation ==
    /\ OrderReturned =>
          /\ Len(tasks_ordered) = Len(tasks_to_do)
          /\ Range(tasks_ordered) = Range(tasks_to_do)
    /\ ScheduleReturned =>
          /\ Len(scheduled) = Cardinality(ActiveSet)
          /\ Range(scheduled) = ActiveSet
          /\ \A i \in DOMAIN raw_tasks :
                writes[i] = IF i \in ActiveSet THEN 1 ELSE 0

\* a returned sequence that is not the input order
PermutationWitness ==
    /\ ScheduleReturned
    /\ Len(scheduled) >= 3
    /\ \E i, j \in DOMAIN scheduled : i < j /\ scheduled[i] > scheduled[j]

\* ---------------------------------------------------------------------- C8
\* C8: after schedule returns, the finish time of a dependency is at most
\* the deadline of every returned task that depends on it.
DependentDeadline ==
    ScheduleReturned =>
        \A d, t \in ActiveSet :
            DependsOn(t, d) => FinishOf(d) <= raw_tasks[t].deadline

\* a dependency whose own deadline is later than its dependent's
DependentDeadlineWitness ==
    /\ ScheduleReturned
    /\ \E d, t \in ActiveSet :
          /\ DependsOn(t, d)
          /\ raw_tasks[d].deadline > raw_tasks[t].deadline
          /\ FinishOf(d) <= raw_tasks[t].deadline

\* ---------------------------------------------------------------------- C9
\* C9: after schedule returns, a task that stands earlier in the returned
\* sequence finishes no later than any later task starts; so a dependency
\* finishes no later than its dependent starts.
NoOverlap ==
    ScheduleReturned =>
        /\ \A i, j \in DOMAIN scheduled :
              i < j => FinishOf(scheduled[i]) <= StartOf(scheduled[j])
        /\ \A d, t \in ActiveSet :
              DependsOn(t, d) => FinishOf(d) <= StartOf(t)

\* three tasks of positive duration packed back to back behind a dependency
NoOverlapWitness ==
    /\ ScheduleReturned
    /\ Len(scheduled) >= 3
    /\ \A k \in DOMAIN scheduled : raw_tasks[scheduled[k]].duration > 0
    /\ \E d, t \in ActiveSet : DependsOn(t, d) /\ FinishOf(d) <= StartOf(t)

\* --------------------------------------------------------------------- C10
\* the dependencies of t inside the status-filtered set
ActiveDeps(t) == {d \in ActiveSet : DependsOn(t, d)}

\* a: the higher-priority task, b: the lower-priority one, same deadline
AlphaOrder(a, b) ==
    /\ alpha = 0 => (Precedes(scheduled, a, b) <=> a < b)
    /\ alpha >= 1 => Precedes(scheduled, a, b)

\* C10 as stated: any two returned tasks with equal deadline, different
\* priority and no dependency between them are in input order at alpha = 0
\* and in priority order at a large alpha.
AlphaSensitivityAsStated ==
    ScheduleReturned =>
        \A a, b \in ActiveSet :
            ( /\ raw_tasks[a].deadline = raw_tasks[b].deadline
              /\ raw_tasks[a].priority > raw_tasks[b].priority
              /\ ~DependsOn(a, b)
              /\ ~DependsOn(b, a) ) => AlphaOrder(a, b)

\* C10 amended: the same, for two tasks that have the same dependencies
\* inside the scheduled set (in particular none).
AlphaSensitivity ==
    ScheduleReturned =>
        \A a, b \in ActiveSet :
            ( /\ raw_tasks[a].deadline = raw_tasks[b].deadline
              /\ raw_tasks[a].priority > raw_tasks[b].priority
              /\ ActiveDeps(a) = ActiveDeps(b) ) => AlphaOrder(a, b)

\* the example run at alpha = 5: a later task of higher priority and equal
\* deadline is returned before the earlier one
AlphaSensitivityWitness ==
    /\ ScheduleReturned
    /\ alpha = 5
    /\ \E a, b \in ActiveSet :
          /\ raw_tasks[a].deadline = raw_tasks[b].deadline
          /\ raw_tasks[a].priority > raw_tasks[b].priority
          /\ ActiveDeps(a) = ActiveDeps(b)
          /\ b < a
          /\ Precedes(scheduled, a, b)

\* --------------------------------------------------------------------- C11
\* C11: a dependency id that names no task of the working set never causes
\* the cycle error, and a call on the input with those ids deleted returns
\* the same order and the same times as the call on the input with them.
DanglingIgnored ==
    /\ pc = "raised" => HasCycle(ActiveSet)
    /\ (ScheduleReturned /\ stripped) =>
          /\ Last(output).alpha = alpha
          /\ Rows(scheduled) = Last(output).rows

\* the second call returned after ids of a filtered-out task and of no task
\* at all were deleted, and two tasks are returned
DanglingIgnoredWitness ==
    /\ ScheduleReturned
    /\ stripped
    /\ Len(scheduled) >= 2
    /\ \E i \in DOMAIN raw_tasks : i \notin ActiveSet
    /\ Rows(scheduled) = Last(output).rows

\* --------------------------------------------------------------------- C12
\* C12: a second call with the same alpha on the same task objects, already
\* annotated by the first call, returns the order and the times that the
\* first call returned, and leaves the other tasks without times.
Repeatable ==
    (ScheduleReturned /\ output # <<>> /\ Last(output).alpha = alpha) =>
        /\ Rows(scheduled) = Last(output).rows
        /\ \A i \in DOMAIN raw_tasks : i \notin Range(scheduled) => TimesUnset(i)

\* the second of two calls with the same alpha returned two or more tasks
RepeatableWitness ==
    /\ ScheduleReturned
    /\ Len(output) = 1
    /\ Last(output).alpha = alpha
    /\ Len(scheduled) >= 2
    /\ \E k \in DOMAIN scheduled : raw_tasks[scheduled[k]].duration > 0
    /\ Rows(scheduled) = Last(output).rows

\* --------------------------------------------------------------------- C13
\* the run is the one on the six example tasks (task i is raw_tasks[i])
IsDemo ==
    [i \in DOMAIN raw_tasks |->
        <<raw_tasks[i].id, raw_tasks[i].deadline, raw_tasks[i].duration,
          raw_tasks[i].priority, raw_tasks[i].status, raw_tasks[i].dependencies>>]
    = << <<1, 50, 10, 3, TODO, <<>> >>, <<2, 55, 5, 5, IN_PROGRESS, <<>> >>,
         <<3, 60, 5, 2, TODO, <<>> >>, <<4, 60, 10, 4, PAUSED, <<>> >>,
         <<5, 100, 5, 1, CANCELLED, <<>> >>, <<6, 70, 5, 3, TODO, <<4, 1>> >> >>

PositionIn(s, x) == CHOOSE k \in DOMAIN s : s[k] = x

\* C13: on the six example tasks, for alpha = 0 and alpha = 5, task 5 is not
\* returned and keeps its time fields unset and task 6 comes after tasks 4
\* and 1; at alpha = 0 every emitted task has the least deadline of the ready
\* tasks; at alpha = 5 task 2 stands strictly earlier than at alpha = 0 and
\* before every task of lower priority whose deadline is not earlier.
ConcreteScenario ==
    /\ (IsDemo /\ pc = "loop" /\ alpha = 0 /\ zero_in_degree # <<>>) =>
          \A t \in Range(tasks_to_do) :
              (in_degree[raw_tasks[t].id] = 0 /\ t \notin Range(sorted_list)) =>
                  raw_tasks[Head(zero_in_degree)].deadline <= raw_tasks[t].deadline
    /\ (IsDemo /\ ScheduleReturned) =>
          /\ alpha \in {0, 5}
          /\ 5 \notin Range(scheduled)
          /\ TimesUnset(5)
          /\ Precedes(scheduled, 4, 6)
          /\ Precedes(scheduled, 1, 6)
          /\ alpha = 0 =>
                \A i, j \in DOMAIN scheduled :
                    i < j => raw_tasks[scheduled[i]].deadline
                                <= raw_tasks[scheduled[j]].deadline
          /\ alpha = 5 =>
                /\ Len(output) = 1
                /\ Last(output).alpha = 0
                /\ PositionIn(scheduled, 2)
                      < PositionIn([k \in DOMAIN Last(output).rows |->
                                       Last(output).rows[k].id], 2)
                /\ \A t \in Range(scheduled) :
                      ( /\ raw_tasks[t].priority < raw_tasks[2].priority
                        /\ raw_tasks[t].deadline >= raw_tasks[2].deadline ) =>
                          Precedes(scheduled, 2, t)

\* the second example run: the order and times that the program prints
ConcreteScenarioWitness ==
    /\ IsDemo
    /\ ScheduleReturned
    /\ alpha = 5
    /\ [k \in DOMAIN Last(output).rows |-> Last(output).rows[k].id]
          = <<1, 2, 3, 4, 6>>
    /\ Rows(scheduled) =
          << [id |-> 2, start |-> <<30>>, finish |-> <<35>>],
             [id |-> 1, start |-> <<35>>, finish |-> <<45>>],
             [id |-> 4, start |-> <<45>>, finish |-> <<55>>],
             [id |-> 3, start |-> <<55>>, finish |-> <<60>>],
             [id |-> 6, start |-> <<65>>, finish |-> <<70>>] >>

\* --------------------------------------------------------------------- C14
\* C14: when the input is empty or no task passes the status filter,
\* schedule returns the empty sequence, raises nothing, never enters the
\* ordering or the backward pass and writes no time field.
EmptyInput ==
    ActiveSet = {} =>
        /\ pc \in {"main", "schedule", "print", "exit"}
        /\ pc = "print" => scheduled = <<>>
        /\ \A k \in DOMAIN output : output[k].rows = <<>>
        /\ \A i \in DOMAIN raw_tasks : TimesUnset(i) /\ writes[i] = 0

\* schedule returned for an input whose tasks are all filtered out
EmptyInputWitness ==
    /\ ScheduleReturned
    /\ Len(raw_tasks) >= 2
    /\ ActiveSet = {}
    /\ scheduled = <<>>

\* schedule returned for the empty input
EmptyCollectionWitness ==
    /\ ScheduleReturned
    /\ raw_tasks = <<>>
    /\ scheduled = <<>>

\* --------------------------------------------------------------------- C15
\* C15: no step of order, up to and including its return or its error,
\* changes a field of a task or the content or order of its input list.
OrderPure ==
    [][(pc \in {"order", "loop"}) =>
          (raw_tasks' = raw_tasks /\ tasks_to_do' = tasks_to_do)]_vars

\* order returned a sequence that is not in input order
OrderPureWitness ==
    /\ OrderReturned
    /\ Len(tasks_ordered) >= 2
    /\ tasks_ordered # tasks_to_do

\* --------------------------------------------------------------------- C16
\* the tasks that are ready: no present dependency left and not yet emitted
Ready ==
    {t \in Range(tasks_to_do) :
        in_degree[raw_tasks[t].id] = 0 /\ t \notin Range(sorted_list)}

PoolIsSortedReady ==
    pc = "loop" =>
        /\ Range(zero_in_degree) = Ready
        /\ Len(zero_in_degree) = Cardinality(Ready)
        /\ \A i, j \in DOMAIN zero_in_degree :
              i < j => effective_deadline(zero_in_degree[i])
                          <= effective_deadline(zero_in_degree[j])

\* after a step of order, two tied tasks x before y in the pool were already
\* in that order, or y entered the pool in this step and x was there, or
\* both entered in this step and x is earlier in the input list
TiesByReadiness ==
    (pc \in {"order", "loop"} /\ pc' = "loop") =>
        \A i, j \in DOMAIN zero_in_degree' :
            LET x == zero_in_degree'[i]
                y == zero_in_degree'[j]
            IN (i < j /\ effective_deadline(x) = effective_deadline(y)) =>
                  \/ /\ x \in Range(zero_in_degree)
                     /\ y \in Range(zero_in_degree)
                     /\ Precedes(zero_in_degree, x, y)
                  \/ /\ x \in Range(zero_in_degree)
                     /\ y \notin Range(zero_in_degree)
                  \/ /\ x \notin Range(zero_in_degree)
                     /\ y \notin Range(zero_in_degree)
                     /\ x < y

TightAtHorizon(d, t) ==
    /\ d \in ActiveSet
    /\ t \in ActiveSet
    /\ DependsOn(t, d)
    /\ raw_tasks[d].deadline = max_deadline(scheduled)
    /\ raw_tasks[t].deadline < raw_tasks[d].deadline
    /\ raw_tasks[t].duration > 0

BackwardPackingExact ==
    (ScheduleReturned /\ scheduled # <<>>) =>
        LET n == Len(scheduled)
            dl(i) == raw_tasks[scheduled[i]].deadline
            horizon == CHOOSE h \in {dl(i) : i \in 1..n} : \A i \in 1..n : dl(i) <= h
            cap(i) == IF i = n THEN horizon ELSE StartOf(scheduled[i + 1])
        IN \A i \in 1..n :
              /\ FinishOf(scheduled[i]) = IF cap(i) <= dl(i) THEN cap(i) ELSE dl(i)
              /\ StartOf(scheduled[i])
                    = FinishOf(scheduled[i]) - raw_tasks[scheduled[i]].duration

\* three returned tasks: one ends where its successor begins, below its own
\* deadline, and one ends at its own deadline before its successor begins
BackwardPackingWitness ==
    /\ ScheduleReturned
    /\ Len(scheduled) = 3
    /\ \E i \in 1..2 :
          /\ FinishOf(scheduled[i]) = StartOf(scheduled[i + 1])
          /\ FinishOf(scheduled[i]) < raw_tasks[scheduled[i]].deadline
    /\ \E i \in 1..2 :
          /\ FinishOf(scheduled[i]) = raw_tasks[scheduled[i]].deadline
          /\ FinishOf(scheduled[i]) < StartOf(scheduled[i + 1])

\* --------------------------------------------------------------------- C19
\* no task is removed from the pool twice: the output has no duplicates and
\* holds only input tasks
OneRemovalPerTask ==
    pc = "loop" =>
        /\ Range(sorted_list) \subseteq Range(tasks_to_do)
        /\ Cardinality(Range(sorted_list)) = Len(sorted_list)

\* C19: the ready-pool loop of order ends with an empty pool after at most
\* one removal per task, with or without a cycle among the input tasks, so
\* every call of order returns or raises and every call of schedule returns
\* or raises.
Termination ==
    /\ []OneRemovalPerTask
    /\ (pc = "loop") ~> (pc = "loop" /\ zero_in_degree = <<>>)
    /\ (pc = "order") ~> (pc \in {"horizon", "raised"})
    /\ (pc = "schedule") ~> (pc \in {"print", "raised"})

\* the loop has ended on three tasks with a cycle after a single removal
TerminationWitness ==
    /\ pc = "loop"
    /\ zero_in_degree = <<>>
    /\ Len(tasks_to_do) = 3
    /\ Len(sorted_list) = 1
    /\ HasCycle(Range(tasks_to_do))

\* --------------------------------------------------------------------- C20
\* the entries of t's dependencies list that name an input task not yet in
\* the output
PendingEntries(t) ==
    {k \in DOMAIN raw_tasks[t].dependencies :
        \E d \in Range(tasks_to_do) :
            /\ raw_tasks[d].id = raw_tasks[t].dependencies[k]
            /\ d \notin Range(sorted_list)}

\* C20: before and after every loop iteration of order, in_degree of every
\* input task is the number of its dependency entries that name an input task
\* not yet in the output; every pool task has in_degree 0 and is not in the
\* output; the pool and the output hold no task twice.
InDegreeBookkeeping ==
    pc = "loop" =>
        /\ \A t \in Range(tasks_to_do) :
              /\ in_degree[raw_tasks[t].id] = Cardinality(PendingEntries(t))
              /\ in_degree[raw_tasks[t].id] >= 0
        /\ \A i \in DOMAIN zero_in_degree :
              /\ in_degree[raw_tasks[zero_in_degree[i]].id] = 0
              /\ zero_in_degree[i] \notin Range(sorted_list)
        /\ \A i, j \in DOMAIN zero_in_degree :
              zero_in_degree[i] = zero_in_degree[j] => i = j
        /\ \A i, j \in DOMAIN sorted_list :
              sorted_list[i] = sorted_list[j] => i = j

\* after one removal a task with two dependencies still waits for the other
\* one, which is in the pool
InDegreeBookkeepingWitness ==
    /\ pc = "loop"
    /\ Len(sorted_list) = 1
    /\ \E t \in Range(tasks_to_do) :
          /\ Len(raw_tasks[t].dependencies) = 2
          /\ in_degree[raw_tasks[t].id] = 1
          /\ \E d \in Range(zero_in_degree) : DependsOn(t, d)

====
